---- MODULE Spec2Model ----
(***************************************************************************)
(* Model of the template miner (src/miners/text/template_miner.py): the    *)
(* training loop Miner.run with reload, save, checkpoint, sync and         *)
(* set_peer_weights, and one training step through Nucleus.remote.         *)
(*                                                                         *)
(* Representation.  Tensors of per-peer values are sequences; the uid u of *)
(* the source is index u+1.  peer_weights is held in fixed point, One      *)
(* units per 1.0, so the punishment 0.001 is one unit.  ema_scores and the *)
(* normalised scores are held in fixed point, EmaUnit units per 1.0, and a *)
(* division rounds down.  A loss is an integer or one of Inf, NegInf, NaN. *)
(***************************************************************************)
EXTENDS Integers, Sequences, FiniteSets, TLC

VARIABLES
    pc,                     \* position of Miner.run
    n,                      \* metagraph.n of the live registry snapshot
    active,                 \* uids with metagraph.active > 0
    saved,                  \* model.torch: NoState or the saved state dict
    epoch,                  \* self.epoch
    epoch_loss,             \* self.logs.epoch_loss
    global_step,            \* self.logs.global_step
    peer_weights,           \* self.nucleus.peer_weights
    opt_bound,              \* the optimizer's parameter is nucleus.peer_weights
    ema_scores,             \* self.ema_scores
    quested_peers_count,    \* self.logs.quested_peers_count
    responded_peers_count,  \* self.logs.responded_peers_count
    peers_respond_time,     \* self.logs.peers_respond_time
    last_sync_block,        \* self.last_sync_block
    sync_count,             \* self.logs.sync_count
    current_block,          \* height of the chain, subtensor.get_current_block()
    block,                  \* loop variable of "for block in progress_bar"
    end_block,              \* end_block of the running epoch
    total_epoch_loss,       \* total_epoch_loss of the running epoch
    batches_count,          \* batches_count of the running epoch
    restart_on_failure,     \* config.miner.restart_on_failure
    submitted,              \* the call of timeout_set_weights of this sync()
    last_did_set,           \* the outcome of the latest set_peer_weights()
    round,                  \* the output of remote() in the running step
    events,                 \* inputs so far that were not the plain input
    last_op                 \* the operation that produced this state

vars == <<pc, n, active, saved, epoch, epoch_loss, global_step, peer_weights,
          opt_bound, ema_scores, quested_peers_count, responded_peers_count,
          peers_respond_time, last_sync_block, sync_count, current_block,
          block, end_block, total_epoch_loss, batches_count,
          restart_on_failure, submitted, last_did_set, round, events,
          last_op>>

-----------------------------------------------------------------------------
(* Bounds of the model. *)

MaxN == 3           \* largest registry size
MaxEvents == 2      \* most inputs of a run that are not the plain input
NEpochs == 2        \* config.miner.n_epochs
EpochLength == 2    \* config.miner.epoch_length
SyncBlockTime == 2  \* config.miner.sync_block_time
NTopkPeerWeights == 2   \* config.miner.n_topk_peer_weights
Topk == 2           \* config.nucleus.topk

(* Program constants, in the units of the representation. *)

One == 1000         \* 1.0 of a weight
Punishment == 1     \* config.nucleus.punishment, 0.001
LowerBound == -One  \* the lower bound -1 of Nucleus.remote
EmaUnit == 12000    \* 1.0 of a score
EmaDecayNum == 995  \* self.ema_score_decay = 0.995, over EmaDecayDen
EmaDecayDen == 1000
Inf == 100000       \* math.inf
NegInf == -Inf
NaN == 200000       \* float nan

LiveNetwork == "live"       \* bittensor.neuron.subtensor.network
OtherNetwork == "other"     \* the tag of a state saved on another network
NoState == [absent |-> TRUE]    \* get_saved_state() returns None

-----------------------------------------------------------------------------
(* Tensors. *)

Ones(k) == [i \in 1..k |-> One]
Zeros(k) == [i \in 1..k |-> 0]

RECURSIVE SeqSum(_)
SeqSum(s) == IF s = <<>> THEN 0 ELSE Head(s) + SeqSum(Tail(s))

(* Losses. *)

IsFinite(x) == x \notin {Inf, NegInf, NaN}

AddLoss(a, b) ==
    IF a = NaN \/ b = NaN THEN NaN
    ELSE IF {a, b} = {Inf, NegInf} THEN NaN
    ELSE IF a = Inf \/ b = Inf THEN Inf
    ELSE IF a = NegInf \/ b = NegInf THEN NegInf
    ELSE a + b

DivLoss(a, k) == IF IsFinite(a) THEN a \div k ELSE a

GeLoss(a, b) == a # NaN /\ b # NaN /\ a >= b

-----------------------------------------------------------------------------
(* The registry.  metagraph.sync() replaces the snapshot by the chain's    *)
(* registry: its size and its active flags are inputs.                     *)

RegistrySizes == 1..MaxN

ActiveSets(nn) == SUBSET (1..nn)

(* A chain_growth that counts one peer too many. *)
ChainGrowthOffByOne(nn, w) == nn - Len(w) + 1

(* chain_growth of Miner.sync and Miner.reload. *)
ChainGrowth(nn, w) == nn - Len(w)

(* A torch.cat with its arguments swapped: the new entries come first. *)
ExtendInFront(t, growth, fill) == [i \in 1..growth |-> fill] \o t

(* torch.cat([t, fill * ones(growth)]) for growth >= 0. *)
Extend(t, growth, fill) == t \o [i \in 1..growth |-> fill]

(* The fill values of Miner.sync. *)
NewWeight == One
NewCount == 0
NewEma(nn) == EmaUnit

(* The ema_scores of the start of run(). *)
InitialEma(nn) == [i \in 1..nn |-> EmaUnit \div nn]

(* The inputs of a run are followed in full up to MaxEvents of them: each  *)
(* input has a plain value (the registry has not changed, every candidate  *)
(* responds, the loss is finite, the chain moves one block per training    *)
(* step, ...) and a run takes at most MaxEvents inputs that are not plain. *)
Cost(notplain) == IF notplain THEN 1 ELSE 0

Charge(cost) ==
    /\ events + cost <= MaxEvents
    /\ events' = events + cost

-----------------------------------------------------------------------------
(* A save that tags the state with another network than the live one. *)
SavedStateMistagged(e, l, g, w) ==
    [epoch |-> e, epoch_loss |-> l, global_step |-> g,
     peer_weights |-> w, network |-> OtherNetwork]

(* Miner.save: the state dict written to model.torch. *)
SavedState(e, l, g, w) ==
    [epoch |-> e, epoch_loss |-> l, global_step |-> g,
     peer_weights |-> w, network |-> LiveNetwork]

(* Miner.reload.  The outcome of a reload of state dict sd against a       *)
(* registry refreshed to nn peers: what raised, if anything.               *)
ReloadCause(sd, nn) ==
    IF sd = NoState THEN "no_state"
    ELSE IF sd.network # LiveNetwork THEN "network"
    ELSE IF ChainGrowth(nn, sd.peer_weights) < 0 THEN "shrunk"
    ELSE "ok"

(* A reload whose load_state_dict does not reach peer_weights: the        *)
(* parameter keeps the ones of line 635.                                   *)
ReloadedWeightsNotLoaded(sd, nn) ==
    IF ChainGrowth(nn, sd.peer_weights) >= 0
    THEN Ones(nn)
    ELSE Ones(Len(sd.peer_weights))

(* nucleus.peer_weights after the reload: a parameter of the saved shape,  *)
(* filled by load_state_dict, then extended by chain_growth ones.  With a  *)
(* negative chain_growth the extension raises and the loaded parameter     *)
(* stays.                                                                  *)
ReloadedWeights(sd, nn) ==
    IF ChainGrowth(nn, sd.peer_weights) >= 0
    THEN Extend(sd.peer_weights, ChainGrowth(nn, sd.peer_weights), NewWeight)
    ELSE sd.peer_weights

(* The training state assigned before the network check. *)
ReloadedEpoch(sd) == sd.epoch
ReloadedEpochLoss(sd) == sd.epoch_loss
ReloadedGlobalStep(sd) == sd.global_step

(* A call of reload() that reads state dict sd, with the registry          *)
(* refreshed to (nn, na); run() continues at okpc, or at failpc when       *)
(* reload() raised.                                                        *)
Reload(sd, nn, na, okpc, failpc) ==
    LET cause == ReloadCause(sd, nn) IN
    /\ Charge(Cost(nn # n \/ na # active))
    /\ n' = nn
    /\ active' = na
    /\ IF cause = "no_state"
       THEN UNCHANGED <<epoch, epoch_loss, global_step>>
       ELSE /\ epoch' = ReloadedEpoch(sd)
            /\ epoch_loss' = ReloadedEpochLoss(sd)
            /\ global_step' = ReloadedGlobalStep(sd)
    /\ IF cause \in {"ok", "shrunk"}
       THEN peer_weights' = ReloadedWeights(sd, nn)
       ELSE UNCHANGED peer_weights
    /\ opt_bound' = IF cause = "ok" THEN TRUE
                    ELSE IF cause = "shrunk" THEN FALSE
                    ELSE opt_bound
    /\ pc' = IF cause = "ok" THEN okpc ELSE failpc
    /\ last_op' = [op |-> "reload", cause |-> cause, from |-> pc,
                   growth |-> 0]

-----------------------------------------------------------------------------
(* Miner.run, lines 412-426: the start of the run. *)

RunInit ==
    /\ pc = "run_init"
    /\ epoch' = 0
    /\ global_step' = 0
    /\ epoch_loss' = Inf
    /\ ema_scores' = InitialEma(n)
    /\ pc' = "reload_try"
    /\ last_op' = [op |-> "run_init", cause |-> "ok", from |-> pc, growth |-> 0]
    /\ UNCHANGED <<n, active, saved, peer_weights, opt_bound,
                   quested_peers_count, responded_peers_count,
                   peers_respond_time, last_sync_block, sync_count,
                   current_block, block, end_block, total_epoch_loss,
                   batches_count, restart_on_failure, submitted,
                   last_did_set, round, events>>

StartupReload ==
    /\ pc = "reload_try"
    /\ \E nn \in RegistrySizes : \E na \in ActiveSets(nn) :
          Reload(saved, nn, na, "epoch_check", "startup_save")
    /\ UNCHANGED <<saved, ema_scores, quested_peers_count,
                   responded_peers_count, peers_respond_time, last_sync_block,
                   sync_count, current_block, block, end_block,
                   total_epoch_loss, batches_count,
                   restart_on_failure, submitted,
                   last_did_set, round>>

StartupSave ==
    /\ pc = "startup_save"
    /\ saved' = SavedState(epoch, epoch_loss, global_step, peer_weights)
    /\ pc' = "reload_retry"
    /\ last_op' = [op |-> "save", cause |-> "ok", from |-> pc, growth |-> 0]
    /\ UNCHANGED <<n, active, epoch, epoch_loss, global_step, peer_weights,
                   opt_bound, ema_scores, quested_peers_count,
                   responded_peers_count, peers_respond_time, last_sync_block,
                   sync_count, current_block, block, end_block,
                   total_epoch_loss, batches_count,
                   restart_on_failure, submitted,
                   last_did_set, round, events>>

StartupReloadRetry ==
    /\ pc = "reload_retry"
    /\ \E nn \in RegistrySizes : \E na \in ActiveSets(nn) :
          Reload(saved, nn, na, "epoch_check", "crashed")
    /\ UNCHANGED <<saved, ema_scores, quested_peers_count,
                   responded_peers_count, peers_respond_time, last_sync_block,
                   sync_count, current_block, block, end_block,
                   total_epoch_loss, batches_count,
                   restart_on_failure, submitted,
                   last_did_set, round>>

-----------------------------------------------------------------------------
(* The chain.  A call of subtensor.get_current_block() returns the height, *)
(* which has not moved or has moved on by one block since the call before. *)

MaxBlock == 7       \* the chain is followed up to this height

Heights(cb) == {b \in {cb, cb + 1} : b <= MaxBlock}

Min2(a, b) == IF a <= b THEN a ELSE b

-----------------------------------------------------------------------------
(* Nucleus.remote. *)

RECURSIVE SetSum(_, _)
SetSum(f, s) ==
    IF s = {} THEN 0
    ELSE LET i == CHOOSE j \in s : TRUE IN f[i] + SetSum(f, s \ {i})

Abs(x) == IF x < 0 THEN -x ELSE x

(* torch.min over the entries s of w. *)
MinOf(w, s) == CHOOSE m \in {w[i] : i \in s} : \A i \in s : w[i] >= m

(* real_topk, line 222. *)
RealTopk == Min2(Min2(Topk, n), Cardinality(active))

(* topk_uids: noise of any size can bring any real_topk active peers to    *)
(* the top.                                                                *)
CandidateSets == {c \in SUBSET active : Cardinality(c) = RealTopk}

(* The plain selection is the one of noise too small to change the order: *)
(* the real_topk active peers of the largest weights, the lower uid first  *)
(* among equal weights.                                                    *)
PlainCandidates ==
    CHOOSE c \in CandidateSets :
        \A i \in c : \A j \in active \ c :
            \/ peer_weights[i] > peer_weights[j]
            \/ peer_weights[i] = peer_weights[j] /\ i < j

(* torch.std of fewer than two values is nan, and torch.normal rejects a   *)
(* nan deviation.                                                          *)
NoiseRaises == Cardinality(active) < 2

(* Lines 238-239: F.softmax over the weights of the responders, as shares  *)
(* of JoinUnit.  The softmax does not change when its inputs are shifted   *)
(* by their minimum; e^x is taken as 2^x with x rounded down to whole      *)
(* weights, which is exact for a single responder and for equal weights.   *)
JoinUnit == 1200

MaxExponent == 8

Exp2(w, s, i) == 2 ^ Min2((w[i] - MinOf(w, s)) \div One, MaxExponent)

Softmax(w, s) ==
    [i \in s |-> (Exp2(w, s, i) * JoinUnit)
                    \div SetSum([j \in s |-> Exp2(w, s, j)], s)]

(* Joining weights taken over every candidate, responder or not. *)
JoiningWeightsOfAll(w, cand, ok) == Softmax(w, cand)

(* joining_weights: the softmax of the candidates that responded. *)
JoiningWeights(w, cand, ok) == Softmax(w, ok)

(* Lines 240-242: remote_context is the sum of the responses of the        *)
(* joining candidates times their joining weights; the record holds the    *)
(* coefficient of each candidate's response in it.                         *)
RemoteContext(cand, jw) ==
    [i \in cand |-> IF i \in DOMAIN jw THEN jw[i] ELSE 0]

(* The output of remote_forward() (remote() with the loss of               *)
(* local_forward()), and the value of round outside a step.                *)
NoRound == [cand |-> {}, ok |-> {}, remote_context |-> <<>>,
            query_times |-> <<>>, local_target_loss |-> 0, made |-> FALSE]

RemoteOutput(w, cand, ok, times, loss) ==
    [cand |-> cand, ok |-> ok,
     remote_context |-> RemoteContext(cand, JoiningWeights(w, cand, ok)),
     query_times |-> times, local_target_loss |-> loss, made |-> TRUE]

(* A punishment of twice the constant. *)
PunishedTwice(w, failed) ==
    [i \in DOMAIN w |-> IF i \in failed THEN w[i] - 2 * Punishment ELSE w[i]]

(* Line 246: the punishment of the candidates with a bad return op. *)
Punished(w, failed) ==
    [i \in DOMAIN w |-> IF i \in failed THEN w[i] - Punishment ELSE w[i]]

(* Line 247: the lower bound. *)
Clamped(w) ==
    [i \in DOMAIN w |-> IF w[i] < LowerBound THEN LowerBound ELSE w[i]]

(* An indicator of the peers outside the set. *)
IndicatorOfOthers(nn, s) == [i \in 1..nn |-> IF i \in s THEN 0 ELSE 1]

(* An indicator that is 1 for every peer. *)
IndicatorOfAll(nn, s) == [i \in 1..nn |-> 1]

(* Lines 250-257: the statistics of the round. *)
Indicator(nn, s) == [i \in 1..nn |-> IF i \in s THEN 1 ELSE 0]

RespondTimeOf(nn, t) == [i \in 1..nn |-> IF i \in DOMAIN t THEN t[i] ELSE 0]

(* query_times of dendrite.forward_text: a response takes one unit of     *)
(* time, a failure the timeout of two.                                     *)
QueryTimesOf(cand, ok) == {[i \in cand |-> IF i \in ok THEN 1 ELSE 2]}

-----------------------------------------------------------------------------
(* One training step of Miner.run, lines 455-486. *)

StepLosses == {1, Inf, NaN}

PlainLoss == 1

(* A scores() that leaves out the factor 1/n. *)
RawScoresUnscaled(w, ok) ==
    IF ok = {}
    THEN {[i \in DOMAIN w |-> EmaUnit]}
    ELSE {[i \in DOMAIN w |-> IF i \in ok THEN v ELSE 0] : v \in {-1, 1}}

(* A scores() that returns an empty tensor when no peer responded. *)
RawScoresEmptyOnFailure(w, ok) ==
    IF ok = {}
    THEN {<<>>}
    ELSE IF Cardinality(ok) = 1
    THEN {Zeros(Len(w))}
    ELSE {[i \in DOMAIN w |-> IF i \in ok THEN v ELSE 0] : v \in {-1, 1}}

(* Miner.scores: with no responder the loss has no path to peer_weights    *)
(* and the score is 1/n for each weight; else the second derivative times  *)
(* the squared weight, which is zero for a peer that did not respond and   *)
(* for a single responder, whose softmax is the constant 1.                *)
RawScores(w, ok) ==
    IF ok = {}
    THEN {[i \in DOMAIN w |-> EmaUnit \div n]}
    ELSE IF Cardinality(ok) = 1
    THEN {Zeros(Len(w))}
    ELSE {[i \in DOMAIN w |-> IF i \in ok THEN v ELSE 0] : v \in {-1, 1}}

PlainScores(ok) ==
    IF ok = {} THEN [i \in DOMAIN peer_weights |-> EmaUnit \div n]
    ELSE IF Cardinality(ok) = 1 THEN Zeros(Len(peer_weights))
    ELSE [i \in DOMAIN peer_weights |-> IF i \in ok THEN 1 ELSE 0]

(* A rectifier that lets negative scores through. *)
ReluIdentity(x) == x

(* torch.relu, line 465. *)
Relu(x) == IF x > 0 THEN x ELSE 0

(* torch.nn.functional.normalize(torch.relu(raw), p=1, dim=0), line 465. *)
NormalizedScores(raw) ==
    LET r == [i \in DOMAIN raw |-> Relu(raw[i])]
        norm == SeqSum(r)
    IN  [i \in DOMAIN raw |->
            (r[i] * EmaUnit) \div (IF norm > 0 THEN norm ELSE 1)]

(* optimizer.step(), line 470.  The loss depends on peer_weights through   *)
(* the softmax of the responders' weights (line 239), whose gradient sums  *)
(* to zero and vanishes for a single responder: a step moves one responder *)
(* down and another one up, or moves nothing.                              *)
GradStep == One

GradUpdates(w, ok) ==
    {[i \in DOMAIN w |-> IF i = p[1] THEN -GradStep
                          ELSE IF i = p[2] THEN GradStep ELSE 0] :
        p \in {q \in ok \X ok : q[1] # q[2]}}
        \cup {Zeros(Len(w))}

Stepped(w, d) == [i \in DOMAIN w |-> w[i] + d[i]]

(* a += b on tensors, with b broadcast to the shape of a. *)
CanIAdd(a, b) == Len(b) = Len(a) \/ Len(b) = 1

IAdd(a, b) == [i \in DOMAIN a |-> a[i] + (IF Len(b) = 1 THEN b[1] ELSE b[i])]

(* Line 484: decay * ema + (1 - decay) * scores, with broadcasting. *)
CanBroadcast(a, b) == Len(a) = Len(b) \/ Len(a) = 1 \/ Len(b) = 1

At(t, i) == IF Len(t) = 1 THEN t[1] ELSE t[i]

EmaUpdate(e, s) ==
    [i \in 1..(IF Len(e) >= Len(s) THEN Len(e) ELSE Len(s)) |->
        (EmaDecayNum * At(e, i) + (EmaDecayDen - EmaDecayNum) * At(s, i))
            \div EmaDecayDen]

(* A step that adds its loss to total_epoch_loss once. *)
CountedOnce(total, loss) == AddLoss(total, loss)

(* Lines 464 and 475: total_epoch_loss += output.local_target_loss.item(), *)
(* twice in a step.                                                        *)
CountedLoss(total, loss) == AddLoss(AddLoss(total, loss), loss)

(* The locals of the epoch body (total_epoch_loss, batches_count, block,   *)
(* end_block) are dead once run() has left the body: lines 438-447 assign  *)
(* them before the next read.                                              *)
EpochLeft ==
    /\ total_epoch_loss' = 0
    /\ batches_count' = 0
    /\ block' = 0
    /\ end_block' = 0

StepOp(cause) == [op |-> "step", cause |-> cause, from |-> pc, growth |-> 0]

RemoteOp(cause) ==
    [op |-> "remote", cause |-> cause, from |-> pc, growth |-> 0]

(* Lines 456-460, remote() raises at line 223: nothing has been written. *)
StepNoise ==
    /\ pc = "batch"
    /\ block >= current_block
    /\ NoiseRaises
    /\ pc' = "handler"
    /\ last_op' = RemoteOp("noise")
    /\ EpochLeft
    /\ UNCHANGED <<n, active, saved, epoch, epoch_loss, global_step,
                   peer_weights, opt_bound, ema_scores, quested_peers_count,
                   responded_peers_count, peers_respond_time, last_sync_block,
                   sync_count, current_block, restart_on_failure, submitted,
                   last_did_set, round, events>>

(* Lines 456-460: the forward pass, a call of Nucleus.remote that returns. *)
Remote ==
    /\ pc = "batch"
    /\ block >= current_block
    /\ ~NoiseRaises
    /\ \E cand \in CandidateSets : \E ok \in SUBSET cand :
       \E times \in QueryTimesOf(cand, ok) : \E loss \in StepLosses :
          /\ Charge(Cost(cand # PlainCandidates) + Cost(ok # cand)
                       + Cost(loss # PlainLoss))
          /\ peer_weights' = Clamped(Punished(peer_weights, cand \ ok))
          /\ round' = RemoteOutput(peer_weights, cand, ok, times, loss)
    /\ pc' = "backward"
    /\ last_op' = RemoteOp("ok")
    /\ UNCHANGED <<n, active, saved, epoch, epoch_loss, global_step,
                   opt_bound, ema_scores, quested_peers_count,
                   responded_peers_count, peers_respond_time, last_sync_block,
                   sync_count, current_block, block, end_block,
                   total_epoch_loss, batches_count, restart_on_failure,
                   submitted, last_did_set>>

(* Lines 463-486: the backward pass and the statistics of the step. *)
Step ==
    /\ pc = "backward"
    /\ \E raw \in RawScores(peer_weights, round.ok) :
       \E d \in GradUpdates(peer_weights, round.ok) :
       \E cb \in Heights(current_block) :
          LET cand == round.cand
              ok == round.ok
              times == round.query_times
              loss == round.local_target_loss
              scores == NormalizedScores(raw)
              counted == /\ CanIAdd(quested_peers_count, Indicator(n, cand))
                         /\ CanIAdd(responded_peers_count, Indicator(n, ok))
                         /\ CanIAdd(peers_respond_time, RespondTimeOf(n, times))
              folded == counted /\ CanBroadcast(ema_scores, scores)
          IN
          /\ opt_bound \/ d = Zeros(Len(peer_weights))
          /\ Charge(Cost(raw # PlainScores(ok))
                       + Cost(d # Zeros(Len(peer_weights)))
                       + Cost(cb = current_block))
          /\ peer_weights' = Stepped(peer_weights, d)
          /\ current_block' = cb
          /\ IF counted
             THEN /\ quested_peers_count' =
                        IAdd(quested_peers_count, Indicator(n, cand))
                  /\ responded_peers_count' =
                        IAdd(responded_peers_count, Indicator(n, ok))
                  /\ peers_respond_time' =
                        IAdd(peers_respond_time, RespondTimeOf(n, times))
             ELSE UNCHANGED <<quested_peers_count, responded_peers_count,
                              peers_respond_time>>
          /\ IF folded
             THEN /\ ema_scores' = EmaUpdate(ema_scores, scores)
                  /\ total_epoch_loss' = CountedLoss(total_epoch_loss, loss)
                  /\ batches_count' = batches_count + 1
                  /\ pc' = "batch"
                  /\ last_op' = StepOp("ok")
                  /\ UNCHANGED <<block, end_block>>
             ELSE /\ UNCHANGED ema_scores
                  /\ EpochLeft
                  /\ pc' = "handler"
                  /\ last_op' = StepOp("shape")
    /\ round' = NoRound
    /\ UNCHANGED <<n, active, saved, epoch, epoch_loss, global_step,
                   opt_bound, last_sync_block, sync_count,
                   restart_on_failure, submitted, last_did_set>>

-----------------------------------------------------------------------------
(* Miner.set_peer_weights. *)

(* A topk that takes the k smallest entries. *)
BottomkSets(w, k) ==
    {s \in SUBSET DOMAIN w :
        /\ Cardinality(s) = k
        /\ \A i \in s : \A j \in DOMAIN w \ s : w[i] <= w[j]}

(* torch.topk(w, k): the uids of k largest entries. *)
TopkSets(w, k) ==
    {s \in SUBSET DOMAIN w :
        /\ Cardinality(s) = k
        /\ \A i \in s : \A j \in DOMAIN w \ s : w[i] >= w[j]}

(* The selected weights without the shift by their minimum. *)
Unshifted(w, s) == [i \in s |-> w[i]]

(* topk_weights - torch.min(topk_weights). *)
Shifted(w, s) == [i \in s |-> w[i] - MinOf(w, s)]

(* torch.nn.functional.normalize(x, p=1, dim=0): x / max(|x|_1, eps), as   *)
(* numerators over one denominator.  A norm below eps is the norm 0 of the *)
(* zero vector, whose quotient is zero whatever the denominator.           *)
Normalized(x) ==
    LET norm == SetSum([i \in DOMAIN x |-> Abs(x[i])], DOMAIN x)
    IN  [num |-> x, den |-> IF norm > 0 THEN norm ELSE 1]

(* normalized_topk_weights, line 689. *)
NormalizedTopkWeights(w, s) == Normalized(Shifted(w, s))

(* real_topk, line 687. *)
CommitTopk == Min2(NTopkPeerWeights, n)

NoSubmission == [called |-> FALSE, uids |-> {}, num |-> <<>>, den |-> 1,
                 did_set |-> "none", of |-> <<>>]

(* The call of timeout_set_weights by the operation that produced the      *)
(* state: its arguments, its outcome and the weights it was computed from. *)
Submission(w, s, outcome) ==
    [called |-> TRUE, uids |-> s, num |-> NormalizedTopkWeights(w, s).num,
     den |-> NormalizedTopkWeights(w, s).den, did_set |-> outcome, of |-> w]

SetOutcomes == {"set", "failed", "raised"}

(* The submissions set_peer_weights() can make; none when topk raises. *)
Submissions ==
    IF CommitTopk > Len(peer_weights) \/ CommitTopk = 0
    THEN {NoSubmission}
    ELSE {Submission(peer_weights, s, o) :
             s \in TopkSets(peer_weights, CommitTopk), o \in SetOutcomes}

-----------------------------------------------------------------------------
(* Miner.run, lines 428-453: the head of the epoch loop. *)

RunOp(name) == [op |-> name, cause |-> "ok", from |-> pc, growth |-> 0]

EpochStart ==
    /\ pc = "epoch_check"
    /\ epoch < NEpochs
    /\ quested_peers_count' = Zeros(n)
    /\ responded_peers_count' = Zeros(n)
    /\ peers_respond_time' = Zeros(n)
    /\ sync_count' = 0
    /\ total_epoch_loss' = 0
    /\ batches_count' = 0
    /\ \E cb \in Heights(current_block) :
          /\ cb + 1 <= MaxBlock
          /\ Charge(Cost(cb # current_block))
          /\ block' = cb + 1
          /\ end_block' = cb + 1 + EpochLength
          /\ current_block' = cb
    /\ pc' = "batch"
    /\ last_op' = RunOp("epoch_start")
    /\ UNCHANGED <<n, active, saved, epoch, epoch_loss, global_step,
                   peer_weights, opt_bound, ema_scores, last_sync_block,
                   restart_on_failure, submitted,
                   last_did_set, round>>

RunExit ==
    /\ pc = "epoch_check"
    /\ epoch >= NEpochs
    /\ pc' = "done"
    /\ last_op' = RunOp("exit")
    /\ UNCHANGED <<n, active, saved, epoch, epoch_loss, global_step,
                   peer_weights, opt_bound, ema_scores, quested_peers_count,
                   responded_peers_count, peers_respond_time, last_sync_block,
                   sync_count, current_block, block, end_block,
                   total_epoch_loss, batches_count,
                   restart_on_failure, submitted,
                   last_did_set, round, events>>

(* Lines 453 and 489: the inner loop ends and the height is read again. *)
BatchesEnd ==
    /\ pc = "batch"
    /\ block < current_block
    /\ \E cb \in Heights(current_block) :
          /\ Charge(Cost(cb # current_block))
          /\ current_block' = cb
    /\ pc' = "sync_check"
    /\ last_op' = RunOp("batches_end")
    /\ UNCHANGED <<n, active, saved, epoch, epoch_loss, global_step,
                   peer_weights, opt_bound, ema_scores, quested_peers_count,
                   responded_peers_count, peers_respond_time, last_sync_block,
                   sync_count, block, end_block, total_epoch_loss,
                   batches_count, restart_on_failure, submitted,
                   last_did_set, round>>

-----------------------------------------------------------------------------
(* Miner.sync, called at lines 490-494. *)

SyncDue == current_block - last_sync_block >= SyncBlockTime

SyncOp(cause, growth) ==
    [op |-> "sync", cause |-> cause, from |-> pc, growth |-> growth]

(* An outcome of set_peer_weights() that is a missed commit. *)
Missed == {"failed", "raised"}

CommitOp ==
    [op |-> "set_peer_weights",
     cause |-> IF last_did_set \in Missed THEN "after_miss" ELSE "ok",
     from |-> pc, growth |-> 0]

(* A set_peer_weights() that shifts and normalises the selected weights in *)
(* place.                                                                  *)
SetPeerWeightsInPlace ==
    /\ pc = "sync_check"
    /\ SyncDue
    /\ \E sub \in Submissions :
          /\ Charge(Cost(sub.did_set \in {"failed", "raised"}))
          /\ submitted' = sub
          /\ peer_weights' =
                [i \in DOMAIN peer_weights |->
                    IF i \in sub.uids THEN sub.num[i] ELSE peer_weights[i]]
          /\ last_did_set' = IF sub.called THEN sub.did_set ELSE "raised"
    /\ pc' = "sync_refresh"
    /\ last_op' = CommitOp
    /\ UNCHANGED <<n, active, saved, epoch, epoch_loss, global_step,
                   opt_bound, ema_scores, quested_peers_count,
                   responded_peers_count, peers_respond_time, last_sync_block,
                   sync_count, current_block, block, end_block,
                   total_epoch_loss, batches_count,
                   restart_on_failure, round>>

(* A set_peer_weights() that lets an error of the submission through. *)
SetPeerWeightsRaising ==
    /\ pc = "sync_check"
    /\ SyncDue
    /\ \E sub \in Submissions :
          /\ Charge(Cost(sub.did_set \in {"failed", "raised"}))
          /\ submitted' = sub
          /\ last_did_set' = IF sub.called THEN sub.did_set ELSE "raised"
    /\ pc' = IF submitted'.did_set = "raised" THEN "handler"
             ELSE "sync_refresh"
    /\ last_op' = CommitOp
    /\ UNCHANGED <<n, active, saved, epoch, epoch_loss, global_step,
                   peer_weights, opt_bound, ema_scores, quested_peers_count,
                   responded_peers_count, peers_respond_time, last_sync_block,
                   sync_count, current_block, block, end_block,
                   total_epoch_loss, batches_count,
                   restart_on_failure, round>>

(* Line 376: sync() first sets the weights on the chain. *)
SetPeerWeights ==
    /\ pc = "sync_check"
    /\ SyncDue
    /\ \E sub \in Submissions :
          /\ Charge(Cost(sub.did_set \in {"failed", "raised"}))
          /\ submitted' = sub
          /\ last_did_set' = IF sub.called THEN sub.did_set ELSE "raised"
    /\ pc' = "sync_refresh"
    /\ last_op' = CommitOp
    /\ UNCHANGED <<n, active, saved, epoch, epoch_loss, global_step,
                   peer_weights, opt_bound, ema_scores, quested_peers_count,
                   responded_peers_count, peers_respond_time, last_sync_block,
                   sync_count, current_block, block, end_block,
                   total_epoch_loss, batches_count,
                   restart_on_failure, round>>

(* Lines 379-387 and 493-494: the registry is refreshed and the tensors    *)
(* grow by chain_growth; torch.ones([chain_growth]) raises when it is      *)
(* negative.                                                               *)
Sync ==
    /\ pc = "sync_refresh"
    /\ \E nn \in RegistrySizes : \E na \in ActiveSets(nn) :
          LET growth == ChainGrowth(nn, peer_weights) IN
          /\ Charge(Cost(nn # n \/ na # active))
          /\ n' = nn
          /\ active' = na
          /\ IF growth >= 0
             THEN /\ peer_weights' = Extend(peer_weights, growth, NewWeight)
                  /\ quested_peers_count' =
                        Extend(quested_peers_count, growth, NewCount)
                  /\ responded_peers_count' =
                        Extend(responded_peers_count, growth, NewCount)
                  /\ peers_respond_time' =
                        Extend(peers_respond_time, growth, NewCount)
                  /\ ema_scores' = Extend(ema_scores, growth, NewEma(nn))
                  /\ opt_bound' = FALSE
                  /\ last_sync_block' = current_block
                  /\ sync_count' = sync_count + 1
                  /\ pc' = "block_end"
                  /\ last_op' = SyncOp("ok", growth)
                  /\ UNCHANGED <<block, end_block, total_epoch_loss,
                                 batches_count>>
             ELSE /\ UNCHANGED <<peer_weights, quested_peers_count,
                                 responded_peers_count, peers_respond_time,
                                 ema_scores, opt_bound, last_sync_block,
                                 sync_count>>
                  /\ EpochLeft
                  /\ pc' = "handler"
                  /\ last_op' = SyncOp("shrunk", growth)
    /\ submitted' = NoSubmission
    /\ UNCHANGED <<saved, epoch, epoch_loss, global_step, current_block,
                   restart_on_failure, last_did_set, round>>

(* A run that submits the weights at the end of every block iteration,    *)
(* also when no sync() is due.                                             *)
SkipSyncCommitting ==
    /\ pc = "sync_check"
    /\ ~SyncDue
    /\ \E sub \in Submissions :
          /\ Charge(Cost(sub.did_set \in {"failed", "raised"}))
          /\ submitted' = sub
    /\ pc' = "block_end"
    /\ last_op' = RunOp("skip_sync")
    /\ UNCHANGED <<n, active, saved, epoch, epoch_loss, global_step,
                   peer_weights, opt_bound, ema_scores, quested_peers_count,
                   responded_peers_count, peers_respond_time, last_sync_block,
                   sync_count, current_block, block, end_block,
                   total_epoch_loss, batches_count,
                   restart_on_failure, last_did_set, round>>

(* Lines 490-491: no sync() is due. *)
SkipSync ==
    /\ pc = "sync_check"
    /\ ~SyncDue
    /\ pc' = "block_end"
    /\ last_op' = RunOp("skip_sync")
    /\ UNCHANGED <<n, active, saved, epoch, epoch_loss, global_step,
                   peer_weights, opt_bound, ema_scores, quested_peers_count,
                   responded_peers_count, peers_respond_time, last_sync_block,
                   sync_count, current_block, block, end_block,
                   total_epoch_loss, batches_count,
                   restart_on_failure, submitted,
                   last_did_set, round, events>>

-----------------------------------------------------------------------------
(* Miner.run, lines 496-509: the end of a block, and the head of the next  *)
(* iteration (lines 449-452).                                              *)

LastOfEpoch == (block + 1) % EpochLength = 0

BlockEnd ==
    /\ pc = "block_end"
    /\ epoch_loss' = IF LastOfEpoch
                     THEN DivLoss(total_epoch_loss, batches_count)
                     ELSE epoch_loss
    /\ global_step' = global_step + 1
    /\ block' = block + 1
    /\ IF block + 1 < end_block
       THEN /\ \E cb \in Heights(current_block) :
                  /\ Charge(Cost(cb # current_block))
                  /\ current_block' = cb
            /\ pc' = "batch"
       ELSE /\ UNCHANGED <<current_block, events>>
            /\ pc' = "epoch_end"
    /\ last_op' = RunOp("block_end")
    /\ UNCHANGED <<n, active, saved, epoch, peer_weights, opt_bound,
                   ema_scores, quested_peers_count, responded_peers_count,
                   peers_respond_time, last_sync_block, sync_count, end_block,
                   total_epoch_loss, batches_count,
                   restart_on_failure, submitted,
                   last_did_set, round>>

-----------------------------------------------------------------------------
(* Miner.run, lines 511-516, with Miner.checkpoint. *)

(* A checkpoint() that saves whatever the epoch loss is. *)
CheckpointAlwaysSaves(last_saved, loss) == last_saved = last_saved

(* Line 597: whether checkpoint() saves. *)
CheckpointSaves(last_saved, loss) ==
    last_saved = NoState \/ GeLoss(last_saved.epoch_loss, loss)

(* Line 601: whether checkpoint() reloads. *)
CheckpointReloads(loss) == ~IsFinite(loss)

(* An epoch that leaves self.epoch as it is. *)
SameEpoch(e) == e

(* Line 513: self.epoch += 1. *)
NextEpoch(e) == e + 1

EpochEnd ==
    /\ pc = "epoch_end"
    /\ LET loss == DivLoss(total_epoch_loss, EpochLength)
           sd == IF CheckpointSaves(saved, loss)
                 THEN SavedState(NextEpoch(epoch), loss, global_step,
                                 peer_weights)
                 ELSE saved
       IN
       /\ saved' = sd
       /\ IF CheckpointReloads(loss)
          THEN \E nn \in RegistrySizes : \E na \in ActiveSets(nn) :
                  Reload(sd, nn, na, "epoch_check", "handler")
          ELSE /\ epoch' = NextEpoch(epoch)
               /\ epoch_loss' = loss
               /\ pc' = "epoch_check"
               /\ last_op' = RunOp("checkpoint")
               /\ UNCHANGED <<n, active, global_step, peer_weights, opt_bound,
                               events>>
    /\ EpochLeft
    /\ UNCHANGED <<ema_scores, quested_peers_count, responded_peers_count,
                   peers_respond_time, last_sync_block, sync_count,
                   current_block, restart_on_failure, submitted,
                   last_did_set, round>>

-----------------------------------------------------------------------------
(* Miner.run, lines 522-530: the handler of an error raised in an epoch. *)

Restart ==
    /\ pc = "handler"
    /\ restart_on_failure
    /\ \E nn \in RegistrySizes : \E na \in ActiveSets(nn) :
          Reload(saved, nn, na, "epoch_check", "crashed")
    /\ UNCHANGED <<saved, ema_scores, quested_peers_count,
                   responded_peers_count, peers_respond_time, last_sync_block,
                   sync_count, current_block, block, end_block,
                   total_epoch_loss, batches_count,
                   restart_on_failure, submitted,
                   last_did_set, round>>

Break ==
    /\ pc = "handler"
    /\ ~restart_on_failure
    /\ pc' = "done"
    /\ last_op' = RunOp("break")
    /\ UNCHANGED <<n, active, saved, epoch, epoch_loss, global_step,
                   peer_weights, opt_bound, ema_scores, quested_peers_count,
                   responded_peers_count, peers_respond_time, last_sync_block,
                   sync_count, current_block, block, end_block,
                   total_epoch_loss, batches_count,
                   restart_on_failure, submitted,
                   last_did_set, round, events>>

-----------------------------------------------------------------------------
(* A KeyboardInterrupt of the operator, raised in the thread of run(). *)

InterruptOp == [op |-> "interrupt", cause |-> "ok", from |-> pc, growth |-> 0]

(* Lines 419-426: the interrupt arrives as reload() starts; the bare       *)
(* except of line 423 catches it and run() goes on to save().              *)
StartupInterrupt ==
    /\ pc = "reload_try"
    /\ Charge(1)
    /\ pc' = "startup_save"
    /\ last_op' = InterruptOp
    /\ UNCHANGED <<n, active, saved, epoch, epoch_loss, global_step,
                   peer_weights, opt_bound, ema_scores, quested_peers_count,
                   responded_peers_count, peers_respond_time, last_sync_block,
                   sync_count, current_block, block, end_block,
                   total_epoch_loss, batches_count, restart_on_failure,
                   submitted, last_did_set, round>>

(* The control points inside the try of lines 430-516. *)
EpochBody ==
    {"batch", "backward", "sync_check", "sync_refresh", "block_end",
     "epoch_end"}

(* Lines 518-520: the interrupt arrives in the body of an epoch; run()     *)
(* breaks out of the loop.                                                 *)
Interrupt ==
    /\ pc \in EpochBody
    /\ Charge(1)
    /\ pc' = "done"
    /\ last_op' = InterruptOp
    /\ EpochLeft
    /\ round' = NoRound
    /\ submitted' = NoSubmission
    /\ UNCHANGED <<n, active, saved, epoch, epoch_loss, global_step,
                   peer_weights, opt_bound, ema_scores, quested_peers_count,
                   responded_peers_count, peers_respond_time, last_sync_block,
                   sync_count, current_block, restart_on_failure,
                   last_did_set>>

-----------------------------------------------------------------------------
(* The handlers of inbound requests, lines 533-591.  The axon calls them   *)
(* on its own threads while run() is between "reload_try" and its end.     *)
(* The call each one submits to the thread pool runs local_forward, which  *)
(* reads the embedding, the encoder, the hidden layer and the decoder of   *)
(* the nucleus; backward_text accumulates gradients on those.  None of     *)
(* them is part of this state.                                             *)

Serving == pc \notin {"run_init", "done", "crashed"}

HandlerOp(name) == [op |-> name, cause |-> "ok", from |-> pc, growth |-> 0]

(* A backward_text that applies the gradient of the peer to peer_weights. *)
BackwardTextStepping ==
    /\ Serving
    /\ Charge(1)
    /\ peer_weights' = [i \in DOMAIN peer_weights |-> peer_weights[i] - GradStep]
    /\ last_op' = HandlerOp("backward_text")
    /\ UNCHANGED <<pc, n, active, saved, epoch, epoch_loss, global_step,
                   opt_bound, ema_scores, quested_peers_count,
                   responded_peers_count, peers_respond_time, last_sync_block,
                   sync_count, current_block, block, end_block,
                   total_epoch_loss, batches_count, restart_on_failure,
                   submitted, last_did_set, round>>

(* Lines 533-557. *)
ForwardText ==
    /\ Serving
    /\ Charge(1)
    /\ last_op' = HandlerOp("forward_text")
    /\ UNCHANGED <<pc, n, active, saved, epoch, epoch_loss, global_step,
                   peer_weights, opt_bound, ema_scores, quested_peers_count,
                   responded_peers_count, peers_respond_time, last_sync_block,
                   sync_count, current_block, block, end_block,
                   total_epoch_loss, batches_count, restart_on_failure,
                   submitted, last_did_set, round>>

(* Lines 560-591. *)
BackwardText ==
    /\ Serving
    /\ Charge(1)
    /\ last_op' = HandlerOp("backward_text")
    /\ UNCHANGED <<pc, n, active, saved, epoch, epoch_loss, global_step,
                   peer_weights, opt_bound, ema_scores, quested_peers_count,
                   responded_peers_count, peers_respond_time, last_sync_block,
                   sync_count, current_block, block, end_block,
                   total_epoch_loss, batches_count, restart_on_failure,
                   submitted, last_did_set, round>>

-----------------------------------------------------------------------------
(* The state after Miner.__init__, before run().  model.torch is absent or *)
(* holds the state a run before this one saved, on this network or on      *)
(* another.                                                                *)

EarlierWeights(p) ==
    [i \in 1..p |-> IF i % 3 = 1 THEN LowerBound ELSE One - 600 * (i % 3)]

EarlierStates ==
    {[epoch |-> 1, epoch_loss |-> 2, global_step |-> EpochLength,
      peer_weights |-> EarlierWeights(p), network |-> net] :
        p \in 0..MaxN, net \in {LiveNetwork, OtherNetwork}}

Init ==
    /\ pc = "run_init"
    /\ n \in RegistrySizes
    /\ active \in ActiveSets(n)
    /\ saved \in {NoState} \cup EarlierStates
    /\ events = Cost(active # 1..n) + Cost(saved # NoState)
    /\ events <= MaxEvents
    /\ epoch = 0
    /\ epoch_loss = 0
    /\ global_step = 0
    /\ peer_weights = <<>>
    /\ opt_bound = TRUE
    /\ ema_scores = <<>>
    /\ quested_peers_count = <<>>
    /\ responded_peers_count = <<>>
    /\ peers_respond_time = <<>>
    /\ last_sync_block = 0
    /\ sync_count = 0
    /\ current_block = 0
    /\ block = 0
    /\ end_block = 0
    /\ total_epoch_loss = 0
    /\ batches_count = 0
    /\ restart_on_failure \in BOOLEAN
    /\ submitted = NoSubmission
    /\ last_did_set = "none"
    /\ round = NoRound
    /\ last_op = [op |-> "init", cause |-> "ok", from |-> "init", growth |-> 0]

Next ==
    \/ RunInit
    \/ StartupReload
    \/ StartupSave
    \/ StartupReloadRetry
    \/ EpochStart
    \/ RunExit
    \/ StepNoise
    \/ Remote
    \/ Step
    \/ BatchesEnd
    \/ SetPeerWeights
    \/ Sync
    \/ SkipSync
    \/ BlockEnd
    \/ EpochEnd
    \/ Restart
    \/ Break
    \/ StartupInterrupt
    \/ Interrupt
    \/ ForwardText
    \/ BackwardText

Spec == Init /\ [][Next]_vars

(* The steps of run().  run() is one thread that nothing suspends: while   *)
(* it has a step to take, it takes one.                                    *)
RunSteps ==
    \/ RunInit
    \/ StartupReload
    \/ StartupSave
    \/ StartupReloadRetry
    \/ EpochStart
    \/ RunExit
    \/ StepNoise
    \/ Remote
    \/ Step
    \/ BatchesEnd
    \/ SetPeerWeights
    \/ Sync
    \/ SkipSync
    \/ BlockEnd
    \/ EpochEnd
    \/ Restart
    \/ Break

LiveSpec == Init /\ [][Next]_vars /\ WF_vars(RunSteps)

-----------------------------------------------------------------------------
(* The operation that produced a state, as recorded in last_op. *)

AfterReload(cause) == last_op.op = "reload" /\ last_op.cause = cause

AfterSync(cause) == last_op.op = "sync" /\ last_op.cause = cause

StartupReloads == {"reload_try", "reload_retry"}

(* C1: after every sync() and every reload() that returned, peer_weights,  *)
(* ema_scores and the counters of the epoch all have the length n of the   *)
(* registry; the counters are compared once the first epoch has created    *)
(* them, that is after every reload but the ones of the startup.           *)
C1_Alignment ==
    (AfterSync("ok") \/ AfterReload("ok")) =>
        /\ Len(peer_weights) = n
        /\ Len(ema_scores) = n
        /\ last_op.from \notin StartupReloads =>
              /\ Len(quested_peers_count) = n
              /\ Len(responded_peers_count) = n

(* C2: every entry of peer_weights is at least -1 in every state, and so   *)
(* is every entry of the weights that set_peer_weights() read.             *)
C2_Bound ==
    /\ \A i \in DOMAIN peer_weights : peer_weights[i] >= LowerBound
    /\ \A i \in DOMAIN submitted.of : submitted.of[i] >= LowerBound

(* C3: a reload() that raises on the network tag leaves epoch, epoch_loss, *)
(* global_step, peer_weights, the optimizer and the registry snapshot as   *)
(* they were before it.                                                    *)
C3_MismatchMutatesNothing ==
    [][(last_op'.op = "reload" /\ last_op'.cause = "network") =>
            UNCHANGED <<epoch, epoch_loss, global_step, peer_weights,
                        opt_bound, n, active>>]_vars

(* C4: when the reload of the startup has raised on the network tag, the   *)
(* next step of run() ends the run and leaves the persisted checkpoint as  *)
(* it is.                                                                  *)
C4_MismatchIsFatal ==
    [][(pc = "startup_save" /\ AfterReload("network")) =>
            (saved' = saved /\ pc' = "crashed")]_vars

(* C5: a reload() of a state dict with the live network tag and P weights, *)
(* with P <= n, leaves peer_weights of length n: the P persisted values in *)
(* their order, then n - P entries 1.0.                                    *)
C5_ReloadExtends ==
    [][(last_op'.op = "reload" /\ saved' # NoState
            /\ saved'.network = LiveNetwork
            /\ Len(saved'.peer_weights) <= n') =>
            /\ Len(peer_weights') = n'
            /\ \A i \in 1..Len(saved'.peer_weights) :
                  peer_weights'[i] = saved'.peer_weights[i]
            /\ \A i \in (Len(saved'.peer_weights) + 1)..n' :
                  peer_weights'[i] = One]_vars

C5_Witness ==
    /\ AfterReload("ok")
    /\ Len(saved.peer_weights) \in 1..(n - 1)
    /\ saved.peer_weights[1] # One
    /\ peer_weights[1] = saved.peer_weights[1]
    /\ peer_weights[n] = One

(* C6: a reload() that finds fewer peers in the registry than weights in   *)
(* the state dict raises, and the peer_weights it leaves has the length it *)
(* had before the reload or the length n.                                  *)
C6_ShrunkLeavesWeights ==
    [][(last_op'.op = "reload" /\ saved' # NoState
            /\ saved'.network = LiveNetwork
            /\ Len(saved'.peer_weights) > n') =>
            /\ last_op'.cause = "shrunk"
            /\ pc' \in {"startup_save", "handler", "crashed"}
            /\ Len(peer_weights') \in {Len(peer_weights), n'}]_vars

(* The arrays sync() extends, and whether array b is array a with delta    *)
(* entries of value fill appended.                                         *)
Appended(a, b, delta, fill) ==
    /\ Len(b) = Len(a) + delta
    /\ \A i \in 1..Len(a) : b[i] = a[i]
    /\ \A i \in (Len(a) + 1)..Len(b) : b[i] = fill

(* C7: a sync() that finds the registry grown by delta > 0 keeps every     *)
(* entry of peer_weights, ema_scores and the three counters at its index   *)
(* with its value and appends delta entries at the end; the new weights    *)
(* are 1.0 and the new counter entries are 0.                              *)
C7_GrowthAppends ==
    [][(last_op'.op = "sync" /\ n' > Len(peer_weights)) =>
            LET delta == n' - Len(peer_weights) IN
            /\ Appended(peer_weights, peer_weights', delta, One)
            /\ Appended(quested_peers_count, quested_peers_count', delta, 0)
            /\ Appended(responded_peers_count, responded_peers_count',
                        delta, 0)
            /\ Appended(peers_respond_time, peers_respond_time', delta, 0)
            /\ Len(ema_scores') = Len(ema_scores) + delta
            /\ \A i \in 1..Len(ema_scores) :
                  ema_scores'[i] = ema_scores[i]]_vars

C7_Witness ==
    /\ AfterSync("ok")
    /\ last_op.growth > 0
    /\ \E i \in 1..(n - last_op.growth) :
          /\ quested_peers_count[i] > 0
          /\ peers_respond_time[i] > 0
          /\ peer_weights[i] # One
    /\ peer_weights[n] = One
    /\ quested_peers_count[n] = 0

(* C8: each entry of ema_scores that a sync() appends on a growth to n_new *)
(* peers is 1/n_new.                                                       *)
C8_NewEmaIsNeutral ==
    [][(last_op'.op = "sync" /\ n' > Len(peer_weights)) =>
            \A i \in (Len(ema_scores) + 1)..Len(ema_scores') :
                ema_scores'[i] = EmaUnit \div n']_vars

(* C9: a sync() that finds as many peers in the registry as there are      *)
(* weights leaves peer_weights, ema_scores and the three counters as they  *)
(* are, and a second one on the result leaves them again.                  *)
C9_NoGrowthIsNoOp ==
    [][(last_op'.op = "sync" /\ n' = Len(peer_weights)) =>
            /\ UNCHANGED <<peer_weights, ema_scores, quested_peers_count,
                           responded_peers_count, peers_respond_time>>
            /\ Extend(peer_weights', ChainGrowth(n', peer_weights'),
                      NewWeight) = peer_weights'
            /\ Extend(ema_scores', ChainGrowth(n', peer_weights'),
                      NewEma(n')) = ema_scores'
            /\ Extend(quested_peers_count', ChainGrowth(n', peer_weights'),
                      NewCount) = quested_peers_count']_vars

C9_Witness ==
    /\ AfterSync("ok")
    /\ last_op.growth = 0
    /\ \E i \in 1..n : quested_peers_count[i] > 0
    /\ \E i \in 1..n : peer_weights[i] # One

(* The weights of a submission are num[i] / den: whether they sum to 1,    *)
(* and whether the weights they were computed from are all equal.          *)
SumsToOne(sub) == SetSum(sub.num, sub.uids) = sub.den

AllEqual(sub) == \A i \in sub.uids : \A j \in sub.uids : sub.of[i] = sub.of[j]

(* C10, as stated: the weights that set_peer_weights() submits sum to 1,   *)
(* also when the selected weights are all equal and when k = 1.            *)
C10_SumsToOne == submitted.called => SumsToOne(submitted)

(* C10, amended: the submitted weights sum to 1 when the selected weights  *)
(* are not all equal, and are all 0 when they are.                         *)
C10_SumsToOneOrZero ==
    submitted.called =>
        IF AllEqual(submitted)
        THEN \A i \in submitted.uids : submitted.num[i] = 0
        ELSE SumsToOne(submitted) /\ submitted.den > 0

C10_Witness ==
    /\ submitted.called
    /\ ~AllEqual(submitted)
    /\ Cardinality(submitted.uids) = 2
    /\ SumsToOne(submitted)

(* C11: in every commit of set_peer_weights() the submitted uids are the   *)
(* k = min(n_topk_peer_weights, n) largest entries of peer_weights, every  *)
(* submitted weight is at least 0, and the submitted weight of a smallest  *)
(* selected entry is 0.                                                    *)
C11_MinShift ==
    submitted.called =>
        /\ submitted.of = peer_weights
        /\ submitted.uids \subseteq DOMAIN peer_weights
        /\ Cardinality(submitted.uids) =
              (IF NTopkPeerWeights <= n THEN NTopkPeerWeights ELSE n)
        /\ \A i \in submitted.uids : \A j \in DOMAIN peer_weights :
              j \notin submitted.uids => peer_weights[i] >= peer_weights[j]
        /\ \A i \in submitted.uids : submitted.num[i] >= 0
        /\ submitted.den > 0
        /\ \A i \in submitted.uids :
              (\A j \in submitted.uids : peer_weights[i] <= peer_weights[j])
                  => submitted.num[i] = 0

C11_Witness ==
    /\ submitted.called
    /\ n > NTopkPeerWeights
    /\ \E i \in submitted.uids : submitted.num[i] > 0
    /\ \E i \in submitted.uids : submitted.num[i] = 0
    /\ \E j \in DOMAIN peer_weights \ submitted.uids :
          \A i \in submitted.uids : peer_weights[j] < peer_weights[i]

(* C12: a call of set_peer_weights(), whatever the outcome of the          *)
(* submission, leaves peer_weights, ema_scores and the three counters as   *)
(* they were.                                                              *)
C12_CommitWritesNothingBack ==
    [][last_op'.op = "set_peer_weights" =>
            UNCHANGED <<peer_weights, ema_scores, quested_peers_count,
                        responded_peers_count, peers_respond_time>>]_vars

C12_Witness ==
    /\ last_op.op = "set_peer_weights"
    /\ submitted.called
    /\ submitted.did_set = "raised"
    /\ \E i \in submitted.uids : submitted.num[i] # peer_weights[i]
    /\ \E i \in 1..n : quested_peers_count[i] > 0

(* The handlers of inbound requests. *)
InboundHandlers == {"forward_text", "backward_text"}

(* The steps that are not steps of the training loop: an inbound request   *)
(* and the interrupt of the operator.                                      *)
Asynchronous == InboundHandlers \cup {"interrupt"}

(* C13: a set_peer_weights() whose submission returns false or raises      *)
(* returns normally; sync() goes on to refresh the registry and grow the   *)
(* arrays; and the set_peer_weights() of the next sync() submits again,    *)
(* the top-k of the peer_weights of that moment.                           *)
C13_MissedCommitIsNotFatal ==
    [][/\ (last_op'.op = "set_peer_weights" /\ last_did_set' \in Missed)
            => pc' = "sync_refresh"
       /\ (pc = "sync_refresh" /\ last_did_set \in Missed
              /\ last_op'.op \notin Asynchronous)
            => /\ last_op'.op = "sync"
               /\ n' >= Len(peer_weights)
                    => (pc' = "block_end" /\ Len(peer_weights') = n')
       /\ (last_did_set \in Missed /\ last_op'.op = "set_peer_weights")
            => /\ submitted'.called
               /\ submitted'.of = peer_weights'
               /\ \A i \in submitted'.uids :
                    \A j \in DOMAIN peer_weights' \ submitted'.uids :
                        peer_weights'[i] >= peer_weights'[j]]_vars

C13_Witness ==
    /\ last_op.op = "set_peer_weights"
    /\ last_op.cause = "after_miss"
    /\ submitted.called
    /\ submitted.did_set = "set"
    /\ submitted.of = peer_weights

(* The candidates of the round that did not respond. *)
FailedOf(r) == r.cand \ r.ok

(* C14: every call of remote() with an active peer selects exactly         *)
(* min(topk, n, |active|) distinct peers, all of them active.              *)
C14_SelectsRealTopkActive ==
    [][(last_op'.op = "remote" /\ active # {}) =>
            /\ last_op'.cause = "ok"
            /\ round'.made
            /\ round'.cand \subseteq active
            /\ Cardinality(round'.cand) =
                  Min2(Min2(Topk, n), Cardinality(active))]_vars

(* C15: with no active peer, remote() returns without an error, selects no *)
(* peer, returns a remote_context with no response in it and leaves        *)
(* peer_weights as it is.                                                  *)
C15_EmptyRoundIsNoOp ==
    [][(last_op'.op = "remote" /\ active = {}) =>
            /\ last_op'.cause = "ok"
            /\ round'.made
            /\ round'.cand = {}
            /\ \A i \in DOMAIN round'.remote_context :
                  round'.remote_context[i] = 0
            /\ UNCHANGED peer_weights]_vars

(* C16, as stated: the entry of peer_weights of a candidate that failed    *)
(* in the round decreases by exactly the punishment, whatever its value    *)
(* was.                                                                    *)
C16_ExactPunishment ==
    [][(last_op'.op = "remote" /\ last_op'.cause = "ok") =>
            \A i \in FailedOf(round') :
                peer_weights'[i] = peer_weights[i] - Punishment]_vars

(* C16, amended: the entry of a candidate that failed becomes its value    *)
(* less the punishment, or -1 when that is below -1.                       *)
C16_PunishmentThenBound ==
    [][(last_op'.op = "remote" /\ last_op'.cause = "ok") =>
            \A i \in FailedOf(round') :
                peer_weights'[i] =
                    (IF peer_weights[i] - Punishment < -One THEN -One
                     ELSE peer_weights[i] - Punishment)]_vars

C16_Witness ==
    /\ last_op.op = "remote"
    /\ Cardinality(round.cand) = 2
    /\ \E i \in FailedOf(round) : peer_weights[i] = One - Punishment
    /\ \E i \in round.ok : peer_weights[i] = One

(* C17: in a round with exactly one responder the joining weight of the    *)
(* responder is 1 and remote_context is its response alone, whichever      *)
(* candidate it is; the response of a failed candidate is in no            *)
(* remote_context.                                                         *)
C17_SoleResponderJoinsWhole ==
    round.made =>
        /\ DOMAIN round.remote_context = round.cand
        /\ \A i \in FailedOf(round) : round.remote_context[i] = 0
        /\ Cardinality(round.ok) = 1 =>
              \A i \in round.ok : round.remote_context[i] = JoinUnit

C17_Witness ==
    /\ round.made
    /\ Cardinality(round.cand) = 2
    /\ Cardinality(round.ok) = 1
    /\ \E i \in round.ok : \E j \in FailedOf(round) :
          /\ i > j
          /\ round.remote_context[i] = JoinUnit
          /\ round.remote_context[j] = 0

(* C18: remote() changes no entry of peer_weights but those of the         *)
(* candidates that were queried in the round and failed.                   *)
C18_RoundFrame ==
    [][(last_op'.op = "remote" /\ last_op'.cause = "ok") =>
            \A i \in DOMAIN peer_weights :
                i \notin FailedOf(round') =>
                    peer_weights'[i] = peer_weights[i]]_vars

(* C19: in a step whose round had no responder, so that the loss has no    *)
(* gradient path to peer_weights, scores() returns a vector of length n    *)
(* whose every entry is 1/n.                                               *)
C19_UniformScores ==
    (pc = "backward" /\ round.ok = {}) =>
        \A raw \in RawScores(peer_weights, round.ok) :
            /\ Len(raw) = n
            /\ \A i \in 1..n : raw[i] * n = EmaUnit

C19_Witness ==
    /\ pc = "backward"
    /\ round.made
    /\ round.ok = {}
    /\ Cardinality(round.cand) = 2
    /\ n = 3

(* C20: at the end of an epoch whose loss is not finite, checkpoint()      *)
(* leaves the persisted state as it is, and the live epoch, epoch_loss,    *)
(* global_step and peer_weights after it are those of that state.          *)
C20_DivergenceRollsBack ==
    [][(pc = "epoch_end" /\ saved # NoState
            /\ ~IsFinite(DivLoss(total_epoch_loss, EpochLength))) =>
            /\ saved' = saved
            /\ epoch' = saved.epoch
            /\ epoch_loss' = saved.epoch_loss
            /\ global_step' = saved.global_step
            /\ \A i \in DOMAIN saved.peer_weights :
                  i \in DOMAIN peer_weights'
                      /\ peer_weights'[i] = saved.peer_weights[i]]_vars

-----------------------------------------------------------------------------
(* C21: a training step adds exactly 1 to the quested count of every       *)
(* candidate of its round and 0 to that of every other peer, exactly 1 to  *)
(* the responded count of every responder and 0 to that of every other     *)
(* peer, and to the respond time of every candidate, failed ones included, *)
(* the latency recorded for it.                                            *)
C21_RoundStatistics ==
    [][(pc = "backward" /\ last_op'.op = "step")
        => /\ DOMAIN quested_peers_count' = 1..n
           /\ DOMAIN responded_peers_count' = 1..n
           /\ DOMAIN peers_respond_time' = 1..n
           /\ \A i \in 1..n :
                 /\ quested_peers_count'[i] - quested_peers_count[i]
                       = (IF i \in round.cand THEN 1 ELSE 0)
                 /\ responded_peers_count'[i] - responded_peers_count[i]
                       = (IF i \in round.ok THEN 1 ELSE 0)
                 /\ peers_respond_time'[i] - peers_respond_time[i]
                       = (IF i \in round.cand THEN round.query_times[i]
                          ELSE 0)]_vars

C21_Witness ==
    /\ last_op.op = "step"
    /\ n = 3
    /\ \E i \in 1..n : \E j \in 1..n : \E k \in 1..n :
          /\ quested_peers_count[i] = 1
          /\ responded_peers_count[i] = 1
          /\ peers_respond_time[i] = 1
          /\ quested_peers_count[j] = 1
          /\ responded_peers_count[j] = 0
          /\ peers_respond_time[j] = 2
          /\ quested_peers_count[k] = 0
          /\ responded_peers_count[k] = 0
          /\ peers_respond_time[k] = 0

(* The scores line 465 computes from the raw vector raw, as parts of       *)
(* EmaUnit: whether each is >= 0, and what they sum to.                    *)
Rectified(raw) == \A i \in DOMAIN raw : NormalizedScores(raw)[i] >= 0

ScoreSum(raw) == SeqSum(NormalizedScores(raw))

(* C22, as stated: for every raw vector scores() can return, the scores    *)
(* folded into the EMA are all >= 0 and sum to 1, also when the entries of *)
(* the raw vector are all <= 0.                                            *)
C22_ScoresSumToOne ==
    pc = "backward" =>
        \A raw \in RawScores(peer_weights, round.ok) :
            Rectified(raw) /\ ScoreSum(raw) = EmaUnit

(* C22, amended: the scores are all >= 0; they sum to 1 when an entry of   *)
(* the raw vector is > 0, and are all 0 when every entry is <= 0.          *)
C22_ScoresSumToOneOrZero ==
    pc = "backward" =>
        \A raw \in RawScores(peer_weights, round.ok) :
            /\ Rectified(raw)
            /\ IF \E i \in DOMAIN raw : raw[i] > 0
               THEN ScoreSum(raw) = EmaUnit
               ELSE NormalizedScores(raw) = Zeros(Len(raw))

C22_Witness ==
    /\ pc = "backward"
    /\ Cardinality(round.ok) = 2
    /\ \E raw \in RawScores(peer_weights, round.ok) :
          \E i \in DOMAIN raw : raw[i] < 0
    /\ \E raw \in RawScores(peer_weights, round.ok) :
          \E i \in DOMAIN raw : raw[i] > 0

(* C23: peer_weights never shrinks: no step, sync() or reload(), whether   *)
(* it returns or raises, leaves peer_weights shorter than it found it.     *)
C23_NeverShrinks == [][Len(peer_weights') >= Len(peer_weights)]_vars

(* C24: a KeyboardInterrupt that arrives in run(), in the reload of the    *)
(* startup or in an epoch, ends run() and writes no checkpoint: the step   *)
(* that takes the interrupt leaves model.torch as it is and run() at its   *)
(* end, and no step after it writes model.torch.                           *)
C24_InterruptEndsRun ==
    [][/\ last_op'.op = "interrupt" => (pc' = "done" /\ saved' = saved)
       /\ last_op.op = "interrupt" => saved' = saved]_vars

(* C25: sync() is all-or-nothing: a sync() that raises has changed neither *)
(* the registry snapshot nor peer_weights, ema_scores or a counter array;  *)
(* one that returns has all five arrays at the length of the new registry. *)
C25_SyncIsAtomic ==
    [][last_op'.op = "sync"
        => IF last_op'.cause = "ok"
           THEN /\ Len(peer_weights') = n'
                /\ Len(ema_scores') = n'
                /\ Len(quested_peers_count') = n'
                /\ Len(responded_peers_count') = n'
                /\ Len(peers_respond_time') = n'
           ELSE UNCHANGED <<n, active, peer_weights, ema_scores,
                            quested_peers_count, responded_peers_count,
                            peers_respond_time>>]_vars

(* C26: forward_text and backward_text, called at any point of run(),      *)
(* write neither peer_weights nor ema_scores nor a counter array: every    *)
(* step that changes one of them is a step of the training loop.           *)
C26_SingleWriter ==
    [][last_op'.op \in InboundHandlers
        => UNCHANGED <<peer_weights, ema_scores, quested_peers_count,
                       responded_peers_count, peers_respond_time>>]_vars

C26_Witness ==
    /\ last_op.op = "backward_text"
    /\ pc = "backward"
    /\ round.made
    /\ FailedOf(round) # {}

(* C27: the failure of queried peers never aborts the round: whichever of  *)
(* the candidates respond, remote() returns its output, with one entry of  *)
(* statistics for each candidate, and the step that follows runs to its    *)
(* end.                                                                    *)
C27_FailureNeverAborts ==
    [][/\ (pc = "batch" /\ last_op'.op = "remote" /\ Cardinality(active) >= 2)
          => /\ last_op'.cause = "ok"
             /\ pc' = "backward"
             /\ round'.made
             /\ DOMAIN round'.remote_context = round'.cand
             /\ DOMAIN round'.query_times = round'.cand
       /\ (pc = "backward" /\ last_op'.op = "step" /\ Len(ema_scores) = n)
          => /\ last_op'.cause = "ok"
             /\ pc' = "batch"
             /\ batches_count' = batches_count + 1]_vars

C27_Witness ==
    /\ last_op.op = "step"
    /\ last_op.cause = "ok"
    /\ batches_count = 1
    /\ \E i \in 1..n : \E j \in 1..n :
          /\ i # j
          /\ quested_peers_count[i] = 1
          /\ quested_peers_count[j] = 1
    /\ \A i \in 1..n : responded_peers_count[i] = 0

(* C28: with exactly one active peer and topk >= 1, remote() returns and   *)
(* has queried that peer and no other.                                     *)
C28_SoleActivePeerIsQueried ==
    [][(pc = "batch" /\ last_op'.op = "remote" /\ Cardinality(active) = 1
            /\ Topk >= 1)
        => /\ last_op'.cause = "ok"
           /\ round'.cand = active
           /\ DOMAIN round'.query_times = active]_vars

(* C29: a step adds its local_target_loss to total_epoch_loss twice, and   *)
(* the epoch loss that checkpoint() compares and saves is that sum, twice  *)
(* the losses of the steps of the epoch, divided by the epoch length.      *)
C29_LossCountedTwice ==
    [][/\ (pc = "backward" /\ last_op'.op = "step" /\ last_op'.cause = "ok"
             /\ IsFinite(total_epoch_loss)
             /\ IsFinite(round.local_target_loss))
          => total_epoch_loss'
                = total_epoch_loss + 2 * round.local_target_loss
       /\ (last_op'.op = "checkpoint" /\ IsFinite(total_epoch_loss))
          => /\ epoch_loss' = (2 * PlainLoss * batches_count) \div EpochLength
             /\ saved' # saved => saved'.epoch_loss = epoch_loss']_vars

C29_Witness ==
    /\ last_op.op = "checkpoint"
    /\ epoch_loss = 2 * PlainLoss
    /\ saved # NoState
    /\ saved.epoch = epoch
    /\ saved.epoch_loss = epoch_loss

(* C30: in every state in which a training step runs, the parameter the    *)
(* optimizer steps and zeroes is nucleus.peer_weights, also after a sync() *)
(* that replaced the parameter.                                            *)
C30_OptimizerStepsLiveWeights == pc = "backward" => opt_bound

(* Whether the first Len(w) entries of v are the entries of w. *)
StartsWith(v, w) ==
    /\ Len(v) >= Len(w)
    /\ \A i \in DOMAIN w : v[i] = w[i]

(* C31: an error raised in an epoch writes nothing to model.torch, and the *)
(* handler that takes it writes nothing either; with restart_on_failure    *)
(* off the handler ends the loop, with it on the handler restores epoch,   *)
(* epoch_loss, global_step and peer_weights from model.torch and the loop  *)
(* goes on to its next epoch.                                              *)
C31_ErrorInEpoch ==
    [][/\ (pc \in EpochBody /\ pc' = "handler") => saved' = saved
       /\ (pc = "handler" /\ last_op'.op \notin Asynchronous)
          => /\ saved' = saved
             /\ IF restart_on_failure
                THEN /\ pc' = "epoch_check"
                     /\ epoch' = saved.epoch
                     /\ epoch_loss' = saved.epoch_loss
                     /\ global_step' = saved.global_step
                     /\ StartsWith(peer_weights', saved.peer_weights)
                ELSE pc' = "done"]_vars

(* C32: in every state responded_peers_count[i] <= quested_peers_count[i]  *)
(* for every peer i; the start of an epoch sets both arrays to 0, and a    *)
(* sync() that grows them appends 0 to both.                               *)
C32_RespondedWithinQuested ==
    [][/\ Len(responded_peers_count') = Len(quested_peers_count')
       /\ \A i \in DOMAIN quested_peers_count' :
             /\ responded_peers_count'[i] >= 0
             /\ responded_peers_count'[i] <= quested_peers_count'[i]
       /\ last_op'.op = "epoch_start"
          => \A i \in DOMAIN quested_peers_count' :
                quested_peers_count'[i] = 0
       /\ (last_op'.op = "sync" /\ last_op'.cause = "ok")
          => \A i \in DOMAIN quested_peers_count' :
                IF i \in DOMAIN quested_peers_count
                THEN /\ quested_peers_count'[i] = quested_peers_count[i]
                     /\ responded_peers_count'[i] = responded_peers_count[i]
                ELSE quested_peers_count'[i] = 0]_vars

C32_Witness ==
    /\ AfterSync("ok")
    /\ last_op.growth > 0
    /\ \E i \in 1..n : quested_peers_count[i] > responded_peers_count[i]
    /\ \E i \in 1..n : responded_peers_count[i] > 0
    /\ quested_peers_count[n] = 0

(* The epoch loss line 512 assigns, from the sum of the epoch. *)
EpochLossOf(total) ==
    IF total \in {Inf, NegInf, NaN} THEN total ELSE total \div EpochLength

(* C33: checkpoint() writes model.torch exactly when no state is persisted *)
(* or the persisted epoch_loss is >= the epoch loss, and then persists     *)
(* that epoch loss; otherwise model.torch stays as it is.  No step of the  *)
(* epoch loop other than checkpoint() writes model.torch, so the persisted *)
(* epoch_loss never increases from one checkpoint() to the next.           *)
C33_PersistedLossNeverIncreases ==
    [][/\ (pc = "epoch_end" /\ last_op'.op \notin Asynchronous)
          => IF \/ saved = NoState
                \/ /\ saved.epoch_loss # NaN
                   /\ EpochLossOf(total_epoch_loss) # NaN
                   /\ saved.epoch_loss >= EpochLossOf(total_epoch_loss)
             THEN /\ saved' # NoState
                  /\ saved'.epoch_loss = EpochLossOf(total_epoch_loss)
                  /\ saved'.epoch = epoch + 1
                  /\ saved'.peer_weights = peer_weights
             ELSE saved' = saved
       /\ (pc \in EpochBody \cup {"epoch_check", "handler"} /\ saved' # saved)
          => /\ pc = "epoch_end"
             /\ saved # NoState => saved'.epoch_loss <= saved.epoch_loss]_vars

C33_Witness ==
    /\ last_op.op = "checkpoint"
    /\ saved # NoState
    /\ saved.epoch < epoch
    /\ saved.epoch_loss < epoch_loss

(* C34: a commit is made by set_peer_weights() as the first action of a    *)
(* sync() that is due, from peer_weights and the registry size of before   *)
(* the refresh, which it leaves as they are; the refresh and the growth to *)
(* the refreshed size come after it, in that order; no other step submits  *)
(* weights.                                                                *)
C34_CommitThenRefreshThenGrowth ==
    [][/\ (last_op'.op = "set_peer_weights"
             \/ (submitted'.called /\ submitted' # submitted))
          => /\ last_op'.op = "set_peer_weights"
             /\ pc = "sync_check"
             /\ current_block - last_sync_block >= SyncBlockTime
             /\ pc' = "sync_refresh"
             /\ UNCHANGED <<n, active, peer_weights>>
             /\ submitted'.called
                  => /\ submitted'.of = peer_weights
                     /\ submitted'.uids \subseteq DOMAIN peer_weights
                     /\ Cardinality(submitted'.uids)
                           = Min2(NTopkPeerWeights, n)
       /\ last_op'.op = "sync"
          => /\ pc = "sync_refresh"
             /\ last_op'.cause = "ok"
                  => /\ Len(peer_weights') = n'
                     /\ StartsWith(peer_weights', peer_weights)]_vars

C34_Witness ==
    /\ pc = "sync_refresh"
    /\ last_op.op = "set_peer_weights"
    /\ n = 3
    /\ submitted.called
    /\ submitted.did_set = "set"
    /\ Cardinality(submitted.uids) = 2
    /\ submitted.of = peer_weights

(* C35: at the end of a block iteration sync() runs if and only if         *)
(* current_block - last_sync_block >= sync_block_time; a sync() that has   *)
(* run leaves last_sync_block at that block, at least sync_block_time      *)
(* after the sync before it; sync_count is 0 at the start of an epoch and  *)
(* grows by 1 with each sync, and with nothing else.                       *)
C35_SyncCadence ==
    [][/\ (pc = "sync_check" /\ last_op'.op \notin Asynchronous)
          => (last_op'.op = "set_peer_weights"
                <=> current_block - last_sync_block >= SyncBlockTime)
       /\ (pc = "sync_refresh" /\ last_op'.op \notin Asynchronous)
          => /\ last_op'.op = "sync"
             /\ last_sync_block' = current_block
             /\ last_sync_block' - last_sync_block >= SyncBlockTime
       /\ (last_op'.op = "sync" /\ last_op'.cause = "ok")
          => sync_count' = sync_count + 1
       /\ last_op'.op = "epoch_start" => sync_count' = 0
       /\ sync_count' # sync_count
          => last_op'.op \in {"sync", "epoch_start"}]_vars

(* The state run() has after line 417, before anything is loaded. *)
FreshRun == epoch = 0 /\ global_step = 0 /\ epoch_loss = Inf

(* C36: with no model.torch, the reload() of the startup raises, run()     *)
(* saves the state it has initialised, and the second reload() loads it;   *)
(* whenever the startup hands over to the epoch loop, model.torch exists,  *)
(* carries the live network, and its epoch, epoch_loss and global_step are *)
(* the live ones.                                                          *)
C36_FreshStartup ==
    [][/\ (pc = "reload_try" /\ saved = NoState
             /\ last_op'.op \notin Asynchronous)
          => /\ last_op'.op = "reload"
             /\ pc' = "startup_save"
             /\ saved' = NoState
             /\ FreshRun'
       /\ (pc = "startup_save" /\ saved = NoState
             /\ last_op'.op \notin Asynchronous)
          => /\ last_op'.op = "save"
             /\ pc' = "reload_retry"
             /\ saved' # NoState
             /\ saved'.network = LiveNetwork
             /\ saved'.epoch = 0
             /\ saved'.global_step = 0
             /\ saved'.epoch_loss = Inf
             /\ saved'.peer_weights = peer_weights
       /\ (pc = "reload_retry" /\ FreshRun /\ peer_weights = <<>>
             /\ last_op'.op \notin Asynchronous)
          => /\ last_op'.op = "reload"
             /\ pc' = "epoch_check"
       /\ (pc \in {"reload_try", "reload_retry"} /\ pc' = "epoch_check")
          => /\ saved' # NoState
             /\ saved'.network = LiveNetwork
             /\ epoch' = saved'.epoch
             /\ epoch_loss' = saved'.epoch_loss
             /\ global_step' = saved'.global_step]_vars

C36_Witness ==
    /\ pc = "epoch_check"
    /\ last_op.op = "reload"
    /\ last_op.from = "reload_retry"
    /\ FreshRun
    /\ saved # NoState
    /\ saved.peer_weights = <<>>
    /\ saved.network = LiveNetwork
    /\ Len(peer_weights) = n

(* The hypotheses of C37: the chain has a next block, no step of run()     *)
(* raises, no epoch loss is non-finite, the operator does not interrupt.   *)
ChainAdvances == current_block < MaxBlock

NothingRaises == pc \notin {"handler", "crashed"}

LossesFinite == IsFinite(total_epoch_loss)

NoInterrupt == last_op.op # "interrupt"

(* C37: a run() in which the chain keeps advancing, no step raises and no  *)
(* epoch loss is non-finite ends through the exit of the epoch loop, with  *)
(* epoch at n_epochs; each epoch ends in one checkpoint(), which takes     *)
(* epoch up by 1, and nothing else moves epoch forward; the inner loop of  *)
(* an epoch has ended only when the height is past its last block.         *)
C37_Termination ==
    /\ ([](ChainAdvances /\ NothingRaises /\ LossesFinite /\ NoInterrupt)
          => <>(pc = "done" /\ last_op.op = "exit" /\ epoch = NEpochs))
    /\ [](pc = "epoch_end" => current_block > end_block - 1)
    /\ [][/\ last_op'.op = "checkpoint"
             => (pc = "epoch_end" /\ epoch' = epoch + 1)
          /\ last_op'.op = "exit" => epoch >= NEpochs
          /\ epoch' > epoch
             => last_op'.op \in {"checkpoint", "reload"}]_vars

C37_Witness ==
    /\ pc = "done"
    /\ last_op.op = "exit"
    /\ epoch = NEpochs
    /\ saved # NoState
    /\ saved.epoch = NEpochs
    /\ global_step = NEpochs * EpochLength

====
